---- MODULE Spec2Model ----
(***************************************************************************)
(* A model of the react-ai-chatbot application: the conversation           *)
(* controller (App.jsx), the input surface (Controls.jsx), the OpenAI      *)
(* provider (assistants/openAI.js), the Message class, the message list    *)
(* (Chat.jsx) and the persisted settings store (stores/settingsStore.js).  *)
(*                                                                         *)
(* Text is a sequence of one-character strings, so that length, case,      *)
(* suffix and whitespace tests are computed as the code computes them.     *)
(***************************************************************************)
EXTENDS Integers, Sequences, FiniteSets, TLC

VARIABLES
    messages,      \* App: useState([]) - the conversation history
    useWebSearch,  \* App: useState(false); nothing calls its setter
    content,       \* Controls: useState("") - the textarea value
    sends,         \* one record per invocation of App.handleContentSend
    errorLog,      \* what console.error received in App.handleContentSend
    requests,      \* the calls of openAI.responses.create made for the sends
    rendered,      \* Chat: the message groups it renders, in order
    providerCalls, \* the direct calls of Assistant.sendMessage, in call order
    providerModule,\* which version of the provider module the build contains
    settings,      \* settings store: the in-memory settings object
    storage,       \* localStorage item "chatbot-settings" written by persist
    lastCall,      \* the last call of a settings store function and what it did
    storeModule,   \* which version of the store module the build contains
    backend,       \* how the storage behind persist behaves in this session
    zustandVersion,\* the major version of zustand the build installs
    subscribers    \* keys whose hook (useWebSearchTool, useTheme) is mounted

vars == <<messages, useWebSearch, content, sends, errorLog, requests, rendered,
          providerCalls, providerModule,
          settings, storage, lastCall, storeModule, backend, zustandVersion,
          subscribers>>

chatVars == <<messages, useWebSearch, content, sends, errorLog, requests, rendered>>

storeVars == <<settings, storage, lastCall, storeModule, backend, zustandVersion,
              subscribers>>

providerVars == <<providerCalls, providerModule>>

----------------------------------------------------------------------------
(* Bounds and input sets                                                   *)

MaxSends == 2

MaxCalls == 2

Empty == <<>>

Blank == <<" ">>

Ping == <<"p", "i", "n", "g">>

Question == <<"W", "h", "a", "t", " ", "i", "s", " ", "2", "+", "2", "?">>

Four == <<"4">>

NetworkError == <<"n", "e", "t">>

\* values the user can put in the textarea
InputTexts == {Empty, Blank, Ping, Question}

\* response.output_text values the vendor can answer with
Replies == {Four, Ping}

\* errors openAI.responses.create can reject with
ProviderErrors == {NetworkError}

----------------------------------------------------------------------------
(* Text helpers (JavaScript String methods)                                *)

UpperLetters == <<"A", "B", "C", "D", "E", "F", "G", "H", "I", "J", "K", "L", "M",
                  "N", "O", "P", "Q", "R", "S", "T", "U", "V", "W", "X", "Y", "Z">>

LowerLetters == <<"a", "b", "c", "d", "e", "f", "g", "h", "i", "j", "k", "l", "m",
                  "n", "o", "p", "q", "r", "s", "t", "u", "v", "w", "x", "y", "z">>

LowerChar(c) ==
    IF \E i \in 1..26 : UpperLetters[i] = c
    THEN LowerLetters[CHOOSE i \in 1..26 : UpperLetters[i] = c]
    ELSE c

\* String.prototype.toLowerCase
toLowerCase(text) == [i \in 1..Len(text) |-> LowerChar(text[i])]

\* String.prototype.endsWith
endsWith(text, suffix) ==
    /\ Len(suffix) <= Len(text)
    /\ SubSeq(text, Len(text) - Len(suffix) + 1, Len(text)) = suffix

WhitespaceChars == {" ", "\t", "\n", "\r"}

\* empty, or nothing but whitespace
IsBlank(text) == \A i \in 1..Len(text) : text[i] \in WhitespaceChars

IsPrefix(s, t) == Len(s) <= Len(t) /\ SubSeq(t, 1, Len(s)) = s

\* String.prototype.indexOf, counting from 1; 0 when pattern does not occur
indexOf(text, pattern) ==
    LET starts == {i \in 1..(Len(text) - Len(pattern) + 1) :
                      SubSeq(text, i, i + Len(pattern) - 1) = pattern}
    IN IF starts = {}
       THEN 0
       ELSE CHOOSE i \in starts : \A j \in starts : i <= j

\* String.prototype.includes
includes(text, pattern) == indexOf(text, pattern) # 0

\* String.prototype.replace with a string pattern: the first occurrence only
replace(text, pattern, replacement) ==
    LET i == indexOf(text, pattern)
    IN IF i = 0
       THEN text
       ELSE SubSeq(text, 1, i - 1) \o replacement
            \o SubSeq(text, i + Len(pattern), Len(text))

----------------------------------------------------------------------------
(* Message (assistants/messages.js)                                        *)

Message(text, role) == [content |-> text, role |-> role]

MessageAssistant(text) == Message(text, "assistant")

MessageUser(text) == Message(text, "user")

MessageSystem(text) == Message(text, "system")

----------------------------------------------------------------------------
(* Assistant (assistants/openAI.js)                                        *)

USE_WEB_SEARCH_TOOL_DIRECTIVE ==
    <<"[", "u", "s", "e", "-", "t", "o", "o", "l", "-",
      "w", "e", "b", "-", "s", "e", "a", "r", "c", "h", "]">>

AssistantModel == "gpt-4o-mini"

sendMessageBody_WithHistory(message) ==
    LET entries == [k \in DOMAIN messages |->
                       [role |-> messages[k].role, content |-> messages[k].content]]
                   \o <<[role |-> message.role, content |-> message.content]>>
        body == [model |-> AssistantModel, input |-> entries]
    IN IF endsWith(toLowerCase(message.content), USE_WEB_SEARCH_TOOL_DIRECTIVE)
       THEN body @@ [tools |-> <<[type |-> "web_search"]>>]
       ELSE body

\* The body Assistant.sendMessage hands to openAI.responses.create.  The
\* second argument of the call in App (useWebSearch) is not a parameter of
\* sendMessage.  The body is built from content before the directive test,
\* and the string content.replace returns (stripped) is used nowhere.
sendMessageBody(message) ==
    LET body == [model |-> AssistantModel,
                 input |-> <<[role |-> message.role, content |-> message.content]>>]
        stripped == replace(message.content, USE_WEB_SEARCH_TOOL_DIRECTIVE, Empty)
    IN IF endsWith(toLowerCase(message.content), USE_WEB_SEARCH_TOOL_DIRECTIVE)
       THEN body @@ [tools |-> <<[type |-> "web_search"]>>]
       ELSE body

\* the outcome of openAI.responses.create: a response, or a rejection
VendorResolved(text) == [ok |-> TRUE, output_text |-> text, error |-> Empty]

VendorRejected(error) == [ok |-> FALSE, output_text |-> Empty, error |-> error]

sendMessageResult_Swallow(vendor) ==
    [threw |-> FALSE, value |-> vendor.output_text, error |-> Empty]

\* what await assistant.sendMessage(...) gives its caller: response.output_text,
\* or the vendor's rejection, which sendMessage neither catches nor retries
sendMessageResult(vendor) ==
    IF vendor.ok
    THEN [threw |-> FALSE, value |-> vendor.output_text, error |-> Empty]
    ELSE [threw |-> TRUE, value |-> Empty, error |-> vendor.error]

----------------------------------------------------------------------------
(* The Assistant without the directive (part_002)                          *)

PlainAssistantModel == "gpt-4o-mini"

sendMessageBodyPlain_UserRole(message) ==
    [model |-> PlainAssistantModel,
     input |-> <<[role |-> "user", content |-> message.content]>>]

\* the body the plain sendMessage hands to openAI.responses.create
sendMessageBodyPlain(message) ==
    [model |-> PlainAssistantModel,
     input |-> <<[role |-> message.role, content |-> message.content]>>]

\* what the plain sendMessage gives its caller
sendMessageResultPlain(vendor) ==
    IF vendor.ok
    THEN [threw |-> FALSE, value |-> vendor.output_text, error |-> Empty]
    ELSE [threw |-> TRUE, value |-> Empty, error |-> vendor.error]

\* the two versions of the provider module in the repository
ProviderModules == {"openAI.js", "part_002"}

\* the same text in capitals
toUpperCase(text) ==
    [i \in 1..Len(text) |->
        IF \E j \in 1..26 : LowerLetters[j] = text[i]
        THEN UpperLetters[CHOOSE j \in 1..26 : LowerLetters[j] = text[i]]
        ELSE text[i]]

\* contents sendMessage is called with: without the directive, with it at
\* the end in either case, and with it elsewhere
ProviderTexts ==
    {Ping,
     Ping \o USE_WEB_SEARCH_TOOL_DIRECTIVE,
     Ping \o toUpperCase(USE_WEB_SEARCH_TOOL_DIRECTIVE),
     USE_WEB_SEARCH_TOOL_DIRECTIVE \o Ping,
     Ping \o USE_WEB_SEARCH_TOOL_DIRECTIVE \o Blank}

\* roles of the messages sendMessage is called with
ProviderRoles == {"user", "assistant"}

\* the body sendMessage of the given version of the module builds
RequestBody(module, message) ==
    IF module = "part_002"
    THEN sendMessageBodyPlain(message)
    ELSE sendMessageBody(message)

\* what sendMessage of the given version gives its caller
RequestResult(module, vendor) ==
    IF module = "part_002"
    THEN sendMessageResultPlain(vendor)
    ELSE sendMessageResult(vendor)

\* new Assistant().sendMessage(message) up to its await: the body is built
\* and openAI.responses.create(body) is called; the call is outstanding
sendMessage(message) ==
    /\ Len(providerCalls) < MaxCalls
    /\ providerCalls' = Append(providerCalls,
                               [message |-> message,
                                body |-> RequestBody(providerModule, message),
                                pc |-> "await",
                                vendor |-> <<>>,
                                result |-> <<>>])
    /\ UNCHANGED providerModule
    /\ UNCHANGED chatVars
    /\ UNCHANGED storeVars

\* the vendor call of the i-th sendMessage settles, in any order among the
\* outstanding ones, and sendMessage resumes: it returns response.output_text
\* or throws the rejection
sendMessageSettles(i, vendor) ==
    /\ i \in DOMAIN providerCalls
    /\ providerCalls[i].pc = "await"
    /\ LET result == RequestResult(providerModule, vendor)
       IN providerCalls' =
             [providerCalls EXCEPT ![i].pc = IF result.threw THEN "threw" ELSE "returned",
                                   ![i].vendor = <<vendor>>,
                                   ![i].result = <<result>>]
    /\ UNCHANGED providerModule
    /\ UNCHANGED chatVars
    /\ UNCHANGED storeVars

----------------------------------------------------------------------------
(* Chat (components/Chat/Chat.jsx)                                         *)

\* "Hi there! (waving hand) How can I assist you?"
WelcomeText ==
    <<"H", "i", " ", "t", "h", "e", "r", "e", "!", " ", "U+1F44B", " ",
      "H", "o", "w", " ", "c", "a", "n", " ", "I", " ",
      "a", "s", "s", "i", "s", "t", " ", "y", "o", "u", "?">>

WELCOME_MESSAGE_GROUP == <<[role |-> "assistant", content |-> WelcomeText]>>

GroupStep_SplitOnAssistant(groups, message) ==
    LET opened == IF message.role = "assistant" THEN Append(groups, <<>>) ELSE groups
        ready == IF Len(opened) = 0 THEN Append(opened, <<>>) ELSE opened
    IN [ready EXCEPT ![Len(ready)] = Append(@, message)]

\* the reducer of messageGroups: a user message opens a group, the first
\* message opens one in any case, and the message joins the last group
GroupStep(groups, message) ==
    LET opened == IF message.role = "user" THEN Append(groups, <<>>) ELSE groups
        ready == IF Len(opened) = 0 THEN Append(opened, <<>>) ELSE opened
    IN [ready EXCEPT ![Len(ready)] = Append(@, message)]

\* Array.prototype.reduce of GroupStep over the first n messages, from [];
\* groups is the accumulator the reducer is called with at message n
RECURSIVE GroupsOfFirst(_, _)
GroupsOfFirst(list, n) ==
    IF n = 0
    THEN <<>>
    ELSE CHOOSE next \in {GroupStep(groups, list[n]) :
                              groups \in {GroupsOfFirst(list, n - 1)}} : TRUE

\* Chat: messages.reduce(..., [])
messageGroups(list) == GroupsOfFirst(list, Len(list))

\* Chat: the groups it renders, [WELCOME_MESSAGE_GROUP, ...messageGroups]
ChatRender(list) == <<WELCOME_MESSAGE_GROUP>> \o messageGroups(list)

\* <Chat messages={list}> is rendered with any list of messages
Chat(list) ==
    /\ messages' = list
    /\ rendered' = ChatRender(list)
    /\ UNCHANGED <<useWebSearch, content, sends, errorLog, requests>>
    /\ UNCHANGED providerVars
    /\ UNCHANGED storeVars

----------------------------------------------------------------------------
(* App (App.jsx) and Controls (Controls.jsx)                               *)

\* The disabled prop of Controls: it defaults to false and App renders
\* <Controls onSend={handleContentSend}> without passing it.
disabled == FALSE

addMessage_Prepend(previousMessages, message) == <<message>> \o previousMessages

\* setMessages((previousMessages) => [...previousMessages, message])
addMessage(previousMessages, message) == previousMessages \o <<message>>

\* handleContentSend up to its await: the user message is added and the
\* provider is called
SendStart(text) ==
    LET message == MessageUser(text)
    IN /\ messages' = addMessage(messages, message)
       /\ rendered' = ChatRender(messages')
       /\ sends' = Append(sends, [content |-> text,
                                  flag |-> useWebSearch,
                                  body |-> sendMessageBody(message),
                                  pc |-> "await",
                                  outcome |-> "pending",
                                  vendor |-> "pending",
                                  response |-> Empty])
       /\ requests' = Append(requests, [send |-> Len(sends) + 1,
                                        body |-> sendMessageBody(message)])

OnResolved_Echo(previousMessages, text, response) ==
    addMessage(previousMessages, MessageAssistant(text))

\* try arm after the await: addMessage(Message.assistant(response))
OnResolved(previousMessages, text, response) ==
    addMessage(previousMessages, MessageAssistant(response))

OnRejected_Detail(previousMessages, text, error) ==
    addMessage(previousMessages, MessageSystem(error))

OnRejected_Swallow(previousMessages, text, error) == previousMessages

\* catch arm: addMessage(Message.system(content))
OnRejected(previousMessages, text, error) ==
    addMessage(previousMessages, MessageSystem(text))

AfterCatch_Rethrow == "thrown"

\* where handleContentSend is after its catch arm: it returns normally
AfterCatch == "done"

\* Controls.handleContentChange
handleContentChange(text) ==
    /\ ~disabled
    /\ content' = text
    /\ UNCHANGED <<messages, useWebSearch, sends, errorLog, requests, rendered>>
    /\ UNCHANGED providerVars
    /\ UNCHANGED storeVars

\* Controls.handleContentSend (the send button or the Enter key), with the
\* synchronous part of App.handleContentSend it calls through onSend
handleContentSend ==
    /\ ~disabled
    /\ IF Len(content) < 1
       THEN UNCHANGED <<messages, sends, content, requests, rendered>>
       ELSE /\ Len(sends) < MaxSends
            /\ SendStart(content)
            /\ content' = Empty
    /\ UNCHANGED <<useWebSearch, errorLog>>
    /\ UNCHANGED providerVars
    /\ UNCHANGED storeVars

\* handleContentSend resumes after its await with the outcome of the vendor
\* call: in its try arm when sendMessage returned, in its catch arm when it
\* threw; no further request is made in either case
Resume(i, vendor) ==
    LET result == sendMessageResult(vendor)
    IN /\ IF result.threw
          THEN /\ messages' = OnRejected(messages, sends[i].content, result.error)
               /\ errorLog' = Append(errorLog, result.error)
               /\ sends' = [sends EXCEPT ![i].pc = AfterCatch,
                                         ![i].outcome = "rejected",
                                         ![i].vendor = "rejected"]
          ELSE /\ messages' = OnResolved(messages, sends[i].content, result.value)
               /\ errorLog' = errorLog
               /\ sends' = [sends EXCEPT ![i].pc = "done",
                                         ![i].outcome = "resolved",
                                         ![i].vendor = IF vendor.ok THEN "resolved"
                                                       ELSE "rejected",
                                         ![i].response = result.value]
       /\ rendered' = ChatRender(messages')
       /\ UNCHANGED <<useWebSearch, content, requests>>
       /\ UNCHANGED providerVars
       /\ UNCHANGED storeVars

\* openAI.responses.create resolves and handleContentSend resumes in its try arm
ProviderResolves(i, response) ==
    /\ i \in DOMAIN sends
    /\ sends[i].pc = "await"
    /\ Resume(i, VendorResolved(response))

\* openAI.responses.create rejects and handleContentSend resumes in its catch arm
ProviderRejects(i, error) ==
    /\ i \in DOMAIN sends
    /\ sends[i].pc = "await"
    /\ Resume(i, VendorRejected(error))

----------------------------------------------------------------------------
(* Settings store (stores/settingsStore.js, and its version with storage   *)
(* clearing and theme validation, part_004)                                *)

SETTING_KEYS == [USE_WEB_SEARCH |-> "useWebSearch", THEME |-> "theme"]

THEMES == [AUTO |-> "light dark", LIGHT |-> "light", DARK |-> "dark"]

\* Object.values
ObjectValues(object) == {object[name] : name \in DOMAIN object}

\* Object.keys
ObjectKeys(object) == DOMAIN object

getDefaultSettings_Dark ==
    [useWebSearch |-> FALSE, theme |-> THEMES.DARK]

getDefaultSettings ==
    [useWebSearch |-> FALSE, theme |-> THEMES.AUTO]

\* the two versions of the store module in the repository
StoreModules == {"settingsStore.js", "part_004"}

\* keys the store functions are called with
TestKeys == {"useWebSearch", "theme", "THEME", "Theme", "language", ""}

\* theme values the store functions are called with
TestThemes == {THEMES.AUTO, THEMES.LIGHT, THEMES.DARK, "neon"}

\* values the store functions are called with, by the key they are called with
TestValues(key) ==
    IF key = SETTING_KEYS.USE_WEB_SEARCH
    THEN BOOLEAN
    ELSE TestThemes

ensureKeyExists_ByName(key) == key \in ObjectKeys(SETTING_KEYS)

\* ensureKeyExists returns normally (TRUE) or throws (FALSE)
ensureKeyExists(key) == key \in ObjectValues(SETTING_KEYS)

\* the message of the Error ensureKeyExists throws
InvalidKeyMessage(key) == <<key, " is not a valid setting.">>

\* persist middleware: every set() writes the whole state under options.name
PersistName == "chatbot-settings"

\* the item persist keeps in storage: {state, version} under options.name
StorageItem(state) == <<[name |-> PersistName, state |-> state, version |-> 0]>>

Snapshot_OnlyTheme(state) == StorageItem([theme |-> state.theme])

\* what persist writes: the whole state (no partialize option is given)
Snapshot(state) == StorageItem(state)

PersistWrite_Skip(previous, state) == previous

\* persist middleware: the item in storage after set() produced state
PersistWrite(previous, state) == Snapshot(state)

\* zustand set(partial): Object.assign({}, state, partial)
SetState(state, partial) ==
    [k \in DOMAIN state \cup DOMAIN partial |->
        IF k \in DOMAIN partial THEN partial[k] ELSE state[k]]

Hydrate_DefaultsWin(initial, item) ==
    IF item = <<>>
    THEN initial
    ELSE SetState(item[1].state, initial)

\* persist middleware on creation: the stored state, when there is one, is
\* merged over the initial state ({...currentState, ...persistedState})
Hydrate(initial, item) ==
    IF item = <<>>
    THEN initial
    ELSE SetState(initial, item[1].state)

selectUseWebSearch(state) == state[SETTING_KEYS.USE_WEB_SEARCH]

selectTheme_WholeState(state) == state

selectTheme(state) == state[SETTING_KEYS.THEME]

\* the selector of the hook that subscribes to key: useWebSearchTool, useTheme
SelectorOf(key, state) ==
    IF key = SETTING_KEYS.USE_WEB_SEARCH
    THEN selectUseWebSearch(state)
    ELSE selectTheme(state)

\* the keys whose value differs between two states of the store
ChangedKeys(old, new) ==
    {k \in DOMAIN new : k \notin DOMAIN old \/ old[k] # new[k]}

\* the hooks that re-render after set(): those whose selected value changed
Rerendered(subs, old, new) ==
    {k \in subs : SelectorOf(k, old) # SelectorOf(k, new)}

Threw(op, key) ==
    [op |-> op, key |-> key, threw |-> TRUE,
     error |-> InvalidKeyMessage(key), returned |-> <<>>]

Returned(op, key, result) ==
    [op |-> op, key |-> key, threw |-> FALSE, error |-> <<>>, returned |-> result]

\* what a call did besides returning: no set() was made
NoEffects(arg) ==
    [arg |-> arg, changed |-> {}, notified |-> {}, published |-> FALSE, wrote |-> FALSE]

\* what a call did besides returning: set() took the store from old to new
SetEffects(arg, subs, old, new) ==
    [arg |-> arg, changed |-> ChangedKeys(old, new),
     notified |-> Rerendered(subs, old, new),
     published |-> TRUE, wrote |-> TRUE]

\* how the storage behind persist can behave in a session: localStorage
\* works, cannot be reached at all, throws from setItem, or throws from
\* removeItem
Backends == {"working", "unavailable", "writeFails", "clearFails"}

\* the error a failing storage raises
StorageErrorMessage == <<"QuotaExceededError">>

\* persist calls storage.setItem after every set(); without a storage
\* (createJSONStorage could not reach localStorage) it only warns
PersistWrites(mode) == mode \in {"working", "clearFails"}

\* storage.setItem throws out of persist's set(), which has no try/catch,
\* after the in-memory state was replaced and the listeners were called
SetThrows(mode) == mode = "writeFails"

\* a store function ended with the error of the storage
ThrewStorage(op, key) ==
    [op |-> op, key |-> key, threw |-> TRUE,
     error |-> StorageErrorMessage, returned |-> <<>>]

\* set(partial) as the store functions call it: zustand's set, then the
\* setItem of persist
SetCall(op, key, partial, arg) ==
    /\ settings' = SetState(settings, partial)
    /\ storage' = IF PersistWrites(backend)
                  THEN PersistWrite(storage, settings')
                  ELSE storage
    /\ lastCall' = (IF SetThrows(backend)
                    THEN ThrewStorage(op, key)
                    ELSE Returned(op, key, <<>>))
                   @@ [SetEffects(arg, subscribers, settings, settings')
                          EXCEPT !.wrote = PersistWrites(backend)]

IsNoOp_Never(current, value) == FALSE

\* updateSetting: currentState[key] === value
IsNoOp(current, value) == current = value

ReadSetting_Default(state, key) == getDefaultSettings[key]

\* getSetting: get()[key]
ReadSetting(state, key) == state[key]

UpdateCore_SetFirst(op, key, value, arg) ==
    IF ~ensureKeyExists(key)
    THEN /\ settings' = SetState(settings, [k \in {key} |-> value])
         /\ storage' = PersistWrite(storage, settings')
         /\ lastCall' = Threw(op, key) @@ NoEffects(arg)
    ELSE IF IsNoOp(settings[key], value)
         THEN /\ lastCall' = Returned(op, key, <<>>) @@ NoEffects(arg)
              /\ UNCHANGED <<settings, storage>>
         ELSE SetCall(op, key, [k \in {key} |-> value], arg)

\* the body of updateSetting(key, value), called as op with argument arg
UpdateCore(op, key, value, arg) ==
    IF ~ensureKeyExists(key)
    THEN /\ lastCall' = Threw(op, key) @@ NoEffects(arg)
         /\ UNCHANGED <<settings, storage>>
    ELSE IF IsNoOp(settings[key], value)
         THEN /\ lastCall' = Returned(op, key, <<>>) @@ NoEffects(arg)
              /\ UNCHANGED <<settings, storage>>
         ELSE SetCall(op, key, [k \in {key} |-> value], arg)

\* useSettingsStore.getState().updateSetting(key, value)
updateSetting(key, value) ==
    /\ UpdateCore("updateSetting", key, value, <<value>>)
    /\ UNCHANGED <<storeModule, backend, zustandVersion, subscribers>>
    /\ UNCHANGED chatVars
    /\ UNCHANGED providerVars

\* useSettingsStore.getState().getSetting(key)
getSetting(key) ==
    /\ IF ~ensureKeyExists(key)
       THEN lastCall' = Threw("getSetting", key) @@ NoEffects(<<>>)
       ELSE lastCall' = Returned("getSetting", key, <<ReadSetting(settings, key)>>)
                        @@ NoEffects(<<>>)
    /\ UNCHANGED <<settings, storage, storeModule, backend, zustandVersion, subscribers>>
    /\ UNCHANGED chatVars
    /\ UNCHANGED providerVars

resetSettings_StaleWrite ==
    /\ settings' = SetState(settings, getDefaultSettings)
    /\ storage' = IF storeModule = "part_004" /\ storage = <<>>
                  THEN <<>>
                  ELSE IF PersistWrites(backend) THEN Snapshot(settings) ELSE storage
    /\ lastCall' = Returned("resetSettings", "", <<>>)
                   @@ SetEffects(<<>>, subscribers, settings, settings')
    /\ UNCHANGED <<storeModule, backend, zustandVersion, subscribers>>
    /\ UNCHANGED chatVars
    /\ UNCHANGED providerVars

\* what resetSettings leaves in storage: settingsStore.js only calls set(),
\* part_004 then calls useSettingsStore.persist.clearStorage() in a try
\* whose catch logs the error (removeItem throwing, or persist being
\* undefined when there is no storage)
StorageAfterReset(module, mode, previous, state) ==
    IF ~PersistWrites(mode)
    THEN previous
    ELSE IF module = "part_004" /\ mode = "working"
         THEN <<>>
         ELSE PersistWrite(previous, state)

\* useSettingsStore.getState().resetSettings()
resetSettings ==
    /\ settings' = SetState(settings, getDefaultSettings)
    /\ storage' = StorageAfterReset(storeModule, backend, storage, settings')
    /\ lastCall' = (IF SetThrows(backend)
                    THEN ThrewStorage("resetSettings", "")
                    ELSE Returned("resetSettings", "", <<>>))
                   @@ [SetEffects(<<>>, subscribers, settings, settings')
                          EXCEPT !.wrote = PersistWrites(backend)]
    /\ UNCHANGED <<storeModule, backend, zustandVersion, subscribers>>
    /\ UNCHANGED chatVars
    /\ UNCHANGED providerVars

\* part_004 useTheme: Object.values(THEMES).includes(newValue) ? newValue : THEMES.AUTO
CoerceTheme(newValue) ==
    IF newValue \in ObjectValues(THEMES) THEN newValue ELSE THEMES.AUTO

\* the value the setter returned by useTheme passes to updateSetting
ThemeArgument(module, newValue) ==
    IF module = "part_004" THEN CoerceTheme(newValue) ELSE newValue

\* the setter returned by useWebSearchTool(), which the checkbox of
\* SettingsModal calls with e.target.checked
setUseWebSearch(newValue) ==
    /\ UpdateCore("setUseWebSearch", SETTING_KEYS.USE_WEB_SEARCH, newValue, <<newValue>>)
    /\ UNCHANGED <<storeModule, backend, zustandVersion, subscribers>>
    /\ UNCHANGED chatVars
    /\ UNCHANGED providerVars

\* the setter returned by useTheme()
setTheme(newValue) ==
    /\ UpdateCore("setTheme", SETTING_KEYS.THEME,
                  ThemeArgument(storeModule, newValue), <<newValue>>)
    /\ UNCHANGED <<storeModule, backend, zustandVersion, subscribers>>
    /\ UNCHANGED chatVars
    /\ UNCHANGED providerVars

\* SettingsModal.handleThemeChange
handleThemeChange(theme) ==
    /\ IF theme \notin ObjectValues(THEMES)
       THEN /\ lastCall' = Returned("handleThemeChange", SETTING_KEYS.THEME, <<>>)
                           @@ NoEffects(<<theme>>)
            /\ UNCHANGED <<settings, storage>>
       ELSE UpdateCore("handleThemeChange", SETTING_KEYS.THEME,
                       ThemeArgument(storeModule, theme), <<theme>>)
    /\ UNCHANGED <<storeModule, backend, zustandVersion, subscribers>>
    /\ UNCHANGED chatVars
    /\ UNCHANGED providerVars

\* a component using useWebSearchTool() or useTheme() mounts: the hook
\* subscribes to the store with its selector
subscribe(key) ==
    /\ key \notin subscribers
    /\ subscribers' = subscribers \cup {key}
    /\ lastCall' = Returned("subscribe", key, <<>>) @@ NoEffects(<<>>)
    /\ UNCHANGED <<settings, storage, storeModule, backend, zustandVersion>>
    /\ UNCHANGED chatVars
    /\ UNCHANGED providerVars

\* the component unmounts: the hook unsubscribes
unsubscribe(key) ==
    /\ key \in subscribers
    /\ subscribers' = subscribers \ {key}
    /\ lastCall' = Returned("unsubscribe", key, <<>>) @@ NoEffects(<<>>)
    /\ UNCHANGED <<settings, storage, storeModule, backend, zustandVersion>>
    /\ UNCHANGED chatVars
    /\ UNCHANGED providerVars

\* the versions of zustand "npm install zustand" can have installed: the
\* persist of zustand 4 writes the item whenever the store is created, that
\* of zustand 5 only after a migration, and no version option is given
ZustandVersions == {"4", "5"}

\* persist on creation: whether the hydrated state is written to storage
\* (a setItem that throws there is caught by persist)
CreationWrites(version, mode) == version = "4" /\ PersistWrites(mode)

\* the item in storage after the store was created over item
CreateStorage(version, mode, item, state) ==
    IF CreationWrites(version, mode)
    THEN PersistWrite(item, state)
    ELSE item

\* the record of the creation of the store
Created ==
    Returned("create", "", <<>>)
    @@ [NoEffects(<<>>) EXCEPT !.wrote = CreationWrites(zustandVersion, backend)]

\* create(persist(...)): the state the store starts with; without a storage
\* persist reads nothing and the initial state stays
CreateState(mode, initial, item) ==
    IF mode = "unavailable"
    THEN initial
    ELSE Hydrate(initial, item)

\* the page is reloaded: create(persist(...)) runs again and hydrates the
\* store from storage; no component is mounted yet
restart ==
    /\ settings' = CreateState(backend, getDefaultSettings, storage)
    /\ storage' = CreateStorage(zustandVersion, backend, storage, settings')
    /\ subscribers' = {}
    /\ lastCall' = Created
    /\ UNCHANGED <<storeModule, backend, zustandVersion>>
    /\ UNCHANGED chatVars
    /\ UNCHANGED providerVars

\* the hooks SettingsModal calls before its isOpen test; App always renders
\* SettingsModal, so both are mounted from the first render of App
SettingsModalHooks == {SETTING_KEYS.USE_WEB_SEARCH, SETTING_KEYS.THEME}

\* items storage can hold when the store is first created: none, one left
\* by the store version that only had useWebSearch (part_003), or a full one
InitialStorage ==
    {<<>>,
     StorageItem([useWebSearch |-> TRUE]),
     StorageItem([useWebSearch |-> FALSE, theme |-> THEMES.DARK])}

----------------------------------------------------------------------------
(* Earlier versions of the settings store: part_003 has the one key        *)
(* useWebSearch behind the generic functions, part_005 has the one key     *)
(* behind setUseWebSearch                                                  *)

LegacyStoreModules == {"part_003", "part_005"}

Part003_SETTING_KEYS == [USE_WEB_SEARCH |-> "useWebSearch"]

Part003_getDefaultSettings == [useWebSearch |-> FALSE]

\* part_003 ensureKeyExists returns normally (TRUE) or throws (FALSE)
Part003_ensureKeyExists(key) == key \in ObjectValues(Part003_SETTING_KEYS)

\* the body of updateSetting(key, value) of part_003
Part003_UpdateCore(op, key, value, arg) ==
    IF ~Part003_ensureKeyExists(key)
    THEN /\ lastCall' = Threw(op, key) @@ NoEffects(arg)
         /\ UNCHANGED <<settings, storage>>
    ELSE IF IsNoOp(settings[key], value)
         THEN /\ lastCall' = Returned(op, key, <<>>) @@ NoEffects(arg)
              /\ UNCHANGED <<settings, storage>>
         ELSE SetCall(op, key, [k \in {key} |-> value], arg)

\* part_003 updateSetting(key, value)
Part003_updateSetting(key, value) ==
    /\ storeModule = "part_003"
    /\ Part003_UpdateCore("updateSetting", key, value, <<value>>)
    /\ UNCHANGED <<storeModule, backend, zustandVersion, subscribers>>
    /\ UNCHANGED chatVars
    /\ UNCHANGED providerVars

\* part_003 getSetting(key)
Part003_getSetting(key) ==
    /\ storeModule = "part_003"
    /\ IF ~Part003_ensureKeyExists(key)
       THEN lastCall' = Threw("getSetting", key) @@ NoEffects(<<>>)
       ELSE lastCall' = Returned("getSetting", key, <<ReadSetting(settings, key)>>)
                        @@ NoEffects(<<>>)
    /\ UNCHANGED <<settings, storage, storeModule, backend, zustandVersion, subscribers>>
    /\ UNCHANGED chatVars
    /\ UNCHANGED providerVars

\* part_003 resetSettings(): set(getDefaultSettings())
Part003_resetSettings ==
    /\ storeModule = "part_003"
    /\ SetCall("resetSettings", "", Part003_getDefaultSettings, <<>>)
    /\ UNCHANGED <<storeModule, backend, zustandVersion, subscribers>>
    /\ UNCHANGED chatVars
    /\ UNCHANGED providerVars

\* the setter returned by useWebSearchTool() of part_003
Part003_setUseWebSearch(newValue) ==
    /\ storeModule = "part_003"
    /\ Part003_UpdateCore("setUseWebSearch", Part003_SETTING_KEYS.USE_WEB_SEARCH,
                          newValue, <<newValue>>)
    /\ UNCHANGED <<storeModule, backend, zustandVersion, subscribers>>
    /\ UNCHANGED chatVars
    /\ UNCHANGED providerVars

\* a component using useWebSearchTool() of part_003 mounts
Part003_subscribe(key) ==
    /\ storeModule = "part_003"
    /\ key \notin subscribers
    /\ subscribers' = subscribers \cup {key}
    /\ lastCall' = Returned("subscribe", key, <<>>) @@ NoEffects(<<>>)
    /\ UNCHANGED <<settings, storage, storeModule, backend, zustandVersion>>
    /\ UNCHANGED chatVars
    /\ UNCHANGED providerVars

\* the component unmounts
Part003_unsubscribe(key) ==
    /\ storeModule = "part_003"
    /\ key \in subscribers
    /\ subscribers' = subscribers \ {key}
    /\ lastCall' = Returned("unsubscribe", key, <<>>) @@ NoEffects(<<>>)
    /\ UNCHANGED <<settings, storage, storeModule, backend, zustandVersion>>
    /\ UNCHANGED chatVars
    /\ UNCHANGED providerVars

\* the state part_005 creates its store with
Part005_InitialState == [useWebSearch |-> FALSE]

\* part_005 setUseWebSearch(value): set({useWebSearch: value}), with no
\* check of the value and no early return
Part005_setUseWebSearch(value) ==
    /\ storeModule = "part_005"
    /\ SetCall("setUseWebSearch", "useWebSearch", [useWebSearch |-> value], <<value>>)
    /\ UNCHANGED <<storeModule, backend, zustandVersion, subscribers>>
    /\ UNCHANGED chatVars
    /\ UNCHANGED providerVars

\* part_005 resetSettings(): set({useWebSearch: false})
Part005_resetSettings ==
    /\ storeModule = "part_005"
    /\ SetCall("resetSettings", "", [useWebSearch |-> FALSE], <<>>)
    /\ UNCHANGED <<storeModule, backend, zustandVersion, subscribers>>
    /\ UNCHANGED chatVars
    /\ UNCHANGED providerVars

\* the state the given earlier version creates its store with
LegacyInitialState(module) ==
    IF module = "part_005"
    THEN Part005_InitialState
    ELSE Part003_getDefaultSettings

\* the page is reloaded with an earlier version of the store
LegacyRestart ==
    /\ settings' = CreateState(backend, LegacyInitialState(storeModule), storage)
    /\ storage' = CreateStorage(zustandVersion, backend, storage, settings')
    /\ subscribers' = {}
    /\ lastCall' = Created
    /\ UNCHANGED <<storeModule, backend, zustandVersion>>
    /\ UNCHANGED chatVars
    /\ UNCHANGED providerVars

\* items storage can hold when an earlier version is first created
LegacyInitialStorage ==
    {<<>>, StorageItem([useWebSearch |-> TRUE])}

----------------------------------------------------------------------------
(* Specifications                                                          *)

Init ==
    /\ messages = <<>>
    /\ useWebSearch = FALSE
    /\ content = Empty
    /\ sends = <<>>
    /\ errorLog = <<>>
    /\ storeModule = "settingsStore.js"
    /\ backend = "working"
    /\ zustandVersion \in ZustandVersions
    /\ settings = CreateState(backend, getDefaultSettings, <<>>)
    /\ storage = CreateStorage(zustandVersion, backend, <<>>, settings)
    /\ lastCall = Created
    /\ subscribers = SettingsModalHooks
    /\ requests = <<>>
    /\ rendered = ChatRender(<<>>)
    /\ providerCalls = <<>>
    /\ providerModule = "openAI.js"

\* the store is created in either version of the module, over any of the
\* items storage can hold
StoreInit ==
    /\ messages = <<>>
    /\ useWebSearch = FALSE
    /\ content = Empty
    /\ sends = <<>>
    /\ errorLog = <<>>
    /\ requests = <<>>
    /\ rendered = ChatRender(<<>>)
    /\ providerCalls = <<>>
    /\ providerModule = "openAI.js"
    /\ storeModule \in StoreModules
    /\ backend = "working"
    /\ zustandVersion \in ZustandVersions
    /\ \E item \in InitialStorage :
          /\ settings = CreateState(backend, getDefaultSettings, item)
          /\ storage = CreateStorage(zustandVersion, backend, item, settings)
    /\ lastCall = Created
    /\ subscribers = {}

\* the store is created over a storage that may not work
FaultInit ==
    /\ messages = <<>>
    /\ useWebSearch = FALSE
    /\ content = Empty
    /\ sends = <<>>
    /\ errorLog = <<>>
    /\ requests = <<>>
    /\ rendered = ChatRender(<<>>)
    /\ providerCalls = <<>>
    /\ providerModule = "openAI.js"
    /\ storeModule \in StoreModules
    /\ backend \in Backends
    /\ zustandVersion \in ZustandVersions
    /\ \E item \in InitialStorage :
          /\ settings = CreateState(backend, getDefaultSettings, item)
          /\ storage = CreateStorage(zustandVersion, backend, item, settings)
    /\ lastCall = Created
    /\ subscribers = {}

ProviderSettles(i) ==
    \/ \E response \in Replies : ProviderResolves(i, response)
    \/ \E error \in ProviderErrors : ProviderRejects(i, error)

\* the conversation: typing, sending, and the provider's answers
Next ==
    \/ \E text \in InputTexts : handleContentChange(text)
    \/ handleContentSend
    \/ \E i \in 1..MaxSends, response \in Replies : ProviderResolves(i, response)
    \/ \E i \in 1..MaxSends, error \in ProviderErrors : ProviderRejects(i, error)

Spec == Init /\ [][Next]_vars

\* every provider call eventually completes
FairSpec == Spec /\ \A i \in 1..MaxSends : WF_vars(ProviderSettles(i))

\* texts typed when the web-search tool is wanted
SearchTexts == {Ping, Ping \o USE_WEB_SEARCH_TOOL_DIRECTIVE}

\* the conversation with the web-search checkbox of the settings dialog and
\* texts that carry the directive
SearchNext ==
    \/ \E text \in SearchTexts : handleContentChange(text)
    \/ handleContentSend
    \/ \E i \in 1..MaxSends, response \in Replies : ProviderResolves(i, response)
    \/ \E i \in 1..MaxSends, error \in ProviderErrors : ProviderRejects(i, error)
    \/ \E checked \in BOOLEAN : setUseWebSearch(checked)

SearchSpec == Init /\ [][SearchNext]_vars

\* calls of the settings store
StoreNext ==
    \/ \E key \in TestKeys : \E value \in TestValues(key) : updateSetting(key, value)
    \/ \E key \in TestKeys : getSetting(key)
    \/ resetSettings
    \/ \E checked \in BOOLEAN : setUseWebSearch(checked)
    \/ \E theme \in TestThemes : setTheme(theme)
    \/ \E theme \in TestThemes : handleThemeChange(theme)
    \/ \E key \in ObjectValues(SETTING_KEYS) : subscribe(key)
    \/ \E key \in ObjectValues(SETTING_KEYS) : unsubscribe(key)
    \/ restart

StoreSpec == StoreInit /\ [][StoreNext]_vars

\* the same calls over a storage that may not work
FaultSpec == FaultInit /\ [][StoreNext]_vars

\* an earlier version of the store is created over any of the items
\* storage can hold
LegacyInit ==
    /\ messages = <<>>
    /\ useWebSearch = FALSE
    /\ content = Empty
    /\ sends = <<>>
    /\ errorLog = <<>>
    /\ requests = <<>>
    /\ rendered = ChatRender(<<>>)
    /\ providerCalls = <<>>
    /\ providerModule = "openAI.js"
    /\ storeModule \in LegacyStoreModules
    /\ backend = "working"
    /\ zustandVersion \in ZustandVersions
    /\ \E item \in LegacyInitialStorage :
          /\ settings = CreateState(backend, LegacyInitialState(storeModule), item)
          /\ storage = CreateStorage(zustandVersion, backend, item, settings)
    /\ lastCall = Created
    /\ subscribers = {}

\* calls of the earlier versions of the store
LegacyNext ==
    \/ \E key \in TestKeys : \E value \in TestValues(key) : Part003_updateSetting(key, value)
    \/ \E key \in TestKeys : Part003_getSetting(key)
    \/ Part003_resetSettings
    \/ \E newValue \in BOOLEAN : Part003_setUseWebSearch(newValue)
    \/ \E key \in ObjectValues(Part003_SETTING_KEYS) : Part003_subscribe(key)
    \/ \E key \in ObjectValues(Part003_SETTING_KEYS) : Part003_unsubscribe(key)
    \/ \E value \in BOOLEAN : Part005_setUseWebSearch(value)
    \/ Part005_resetSettings
    \/ LegacyRestart

LegacySpec == LegacyInit /\ [][LegacyNext]_vars

\* the provider is built from either version of its module
ProviderInit ==
    /\ messages = <<>>
    /\ useWebSearch = FALSE
    /\ content = Empty
    /\ sends = <<>>
    /\ errorLog = <<>>
    /\ requests = <<>>
    /\ rendered = ChatRender(<<>>)
    /\ providerCalls = <<>>
    /\ providerModule \in ProviderModules
    /\ storeModule = "settingsStore.js"
    /\ backend = "working"
    /\ zustandVersion \in ZustandVersions
    /\ settings = CreateState(backend, getDefaultSettings, <<>>)
    /\ storage = CreateStorage(zustandVersion, backend, <<>>, settings)
    /\ lastCall = Created
    /\ subscribers = {}

\* the outcomes of a vendor call
VendorOutcomes ==
    {VendorResolved(r) : r \in Replies} \cup {VendorRejected(e) : e \in ProviderErrors}

\* direct calls of Assistant.sendMessage and the settling of their vendor
\* calls, in any order
ProviderNext ==
    \/ \E text \in ProviderTexts, role \in ProviderRoles :
          sendMessage(Message(text, role))
    \/ \E i \in 1..MaxCalls, vendor \in VendorOutcomes : sendMessageSettles(i, vendor)

ProviderSpec == ProviderInit /\ [][ProviderNext]_vars

MaxHistory == 3

\* roles and contents of the messages Chat is rendered with
ChatRoles == {"user", "assistant", "system"}

ChatTexts == {Four, Ping}

\* the lists of at most MaxHistory messages
MessageLists ==
    UNION {[1..n -> {Message(text, role) : text \in ChatTexts, role \in ChatRoles}] :
              n \in 0..MaxHistory}

\* Chat rendered with any list of messages
ChatNext == \E list \in MessageLists : Chat(list)

ChatSpec == Init /\ [][ChatNext]_vars

----------------------------------------------------------------------------
(* Properties of the conversation controller                               *)

Awaiting(i) == i \in DOMAIN sends /\ sends[i].pc = "await"

Settled(i) == i \in DOMAIN sends /\ sends[i].outcome # "pending"

UserMessages ==
    LET IsUser(m) == m.role = "user"
    IN SelectSeq(messages, IsUser)

ReplyMessages ==
    LET IsReply(m) == m.role \in {"assistant", "system"}
    IN SelectSeq(messages, IsReply)

\* the reply a settled send is due, by the contract of the controller
ExpectedReply(s) ==
    IF s.outcome = "resolved"
    THEN [content |-> s.response, role |-> "assistant"]
    ELSE [content |-> s.content, role |-> "system"]

\* every send so far carried text that is not blank
NonBlankSends == \A i \in DOMAIN sends : ~IsBlank(sends[i].content)

\* C1: at most one provider call is outstanding in every reachable state
\* (stated for runs of non-blank submissions, "hello" then "world").
C1_SingleInFlight ==
    NonBlankSends => Cardinality({i \in DOMAIN sends : Awaiting(i)}) <= 1

\* C2: the history is append-only: in every step the history before the
\* step is a prefix of the history after it.
C2_AppendOnly == [][IsPrefix(messages, messages')]_vars

C2_Witness ==
    /\ Len(messages) = 4
    /\ messages[1].role = "user"
    /\ messages[2].role = "system"
    /\ messages[3].role = "user"
    /\ messages[4].role = "assistant"

\* C3: the history holds one user message per accepted send and one reply
\* (assistant or system) per send whose provider call has completed, none
\* for a pending one: with N accepted sends its length is between N and 2N,
\* and is 2N once every call has completed.
C3_LengthAccounting ==
    LET N == Len(sends)
        done == Cardinality({i \in DOMAIN sends : Settled(i)})
    IN /\ Len(UserMessages) = N
       /\ Len(ReplyMessages) = done
       /\ Len(messages) = N + done
       /\ N <= Len(messages) /\ Len(messages) <= 2 * N
       /\ (done = N => Len(messages) = 2 * N)

C3_Witness ==
    /\ Len(sends) = 2
    /\ sends[1].outcome = "pending"
    /\ sends[2].outcome = "rejected"
    /\ Len(messages) = 3

\* C4: when the provider call of a send resolves with reply r, exactly one
\* message is appended, with role assistant and content r; a single send
\* "What is 2+2?" answered "4" yields [user:"What is 2+2?", assistant:"4"].
C4_SuccessPath ==
    /\ [][\A i \in DOMAIN sends :
            (sends[i].outcome = "pending" /\ sends'[i].outcome = "resolved")
            => messages' = Append(messages, [content |-> sends'[i].response,
                                             role |-> "assistant"])]_vars
    /\ []((/\ Len(sends) = 1
           /\ sends[1].content = Question
           /\ sends[1].outcome = "resolved"
           /\ sends[1].response = Four)
          => messages = <<[content |-> Question, role |-> "user"],
                          [content |-> Four, role |-> "assistant"]>>)

C4_Witness ==
    /\ Len(sends) = 1
    /\ sends[1].outcome = "resolved"
    /\ messages = <<[content |-> Question, role |-> "user"],
                    [content |-> Four, role |-> "assistant"]>>

\* C5: when the provider call of a send with text t fails, exactly one
\* message is appended, with role system and content t (never the error
\* detail), the user message stays in the history and the handler returns
\* normally; a failed send "ping" yields [user:"ping", system:"ping"].
C5_FailurePath ==
    /\ [][\A i \in DOMAIN sends :
            (sends[i].outcome = "pending" /\ sends'[i].outcome = "rejected")
            => /\ messages' = Append(messages, [content |-> sends[i].content,
                                                role |-> "system"])
               /\ \E k \in DOMAIN messages' :
                     messages'[k] = [content |-> sends[i].content, role |-> "user"]
               /\ sends'[i].pc = "done"]_vars
    /\ []((/\ Len(sends) = 1
           /\ sends[1].content = Ping
           /\ sends[1].outcome = "rejected")
          => messages = <<[content |-> Ping, role |-> "user"],
                          [content |-> Ping, role |-> "system"]>>)

C5_Witness ==
    /\ Len(sends) = 1
    /\ sends[1].outcome = "rejected"
    /\ errorLog = <<NetworkError>>
    /\ messages = <<[content |-> Ping, role |-> "user"],
                    [content |-> Ping, role |-> "system"]>>

\* C6: history order equals send order: the user messages are those of the
\* accepted sends in the order of submission, and the reply messages are
\* those of the completed sends in the order of submission, the reply of
\* an earlier send never coming after the reply of a later one (stated for
\* runs of non-blank submissions).
C6_HistoryOrder ==
    LET IsSettled(s) == s.outcome # "pending"
        settled == SelectSeq(sends, IsSettled)
    IN NonBlankSends =>
       /\ UserMessages = [i \in DOMAIN sends |-> [content |-> sends[i].content,
                                                  role |-> "user"]]
       /\ \A i, j \in DOMAIN sends : (i < j /\ Settled(j)) => Settled(i)
       /\ ReplyMessages = [k \in DOMAIN settled |-> ExpectedReply(settled[k])]

\* C7: a submission whose text is empty or only whitespace adds no history
\* entry and triggers no provider call.
C7_BlankRejected ==
    /\ \A i \in DOMAIN sends : ~IsBlank(sends[i].content)
    /\ \A k \in DOMAIN messages :
          messages[k].role = "user" => ~IsBlank(messages[k].content)

\* C8: the user message of a send is in the history before its provider call
\* is made, and the interface is busy (disabled) throughout the call.
C8_BusyDuringCall ==
    \A i \in DOMAIN sends :
        (Awaiting(i) /\ ~IsBlank(sends[i].content)) =>
            /\ \E k \in DOMAIN messages :
                  messages[k] = [content |-> sends[i].content, role |-> "user"]
            /\ disabled

\* C9: under the assumption that every provider call eventually completes,
\* every send that is waiting for the provider is eventually back in Idle
\* (its handler has returned, whether the call resolved or failed) with
\* the input enabled, so a later submission is accepted.
C9_BackToIdle ==
    \A i \in 1..MaxSends :
        Awaiting(i) ~> (i \in DOMAIN sends /\ sends[i].pc = "done" /\ ~disabled)

C9_Witness ==
    /\ Len(sends) = 2
    /\ sends[1].outcome = "rejected"
    /\ sends[1].pc = "done"
    /\ sends[2].outcome = "resolved"
    /\ sends[2].pc = "done"
    /\ Len(messages) = 4
    /\ messages[2].role = "system"
    /\ messages[3].role = "user"

----------------------------------------------------------------------------
(* Properties of the settings store                                        *)

\* C10: getSetting(key) and updateSetting(key, value) fail with an error for
\* every key outside {useWebSearch, theme} and succeed for every key in it.
C10_KeyValidation ==
    lastCall.op \in {"getSetting", "updateSetting"}
    => /\ lastCall.threw <=> lastCall.key \notin {"useWebSearch", "theme"}
       /\ lastCall.threw => lastCall.error = <<lastCall.key, " is not a valid setting.">>

C10_Witness ==
    /\ lastCall.op = "updateSetting"
    /\ lastCall.key = "THEME"
    /\ lastCall.threw
    /\ settings.theme = "dark"

\* the declared keys and defaults of the settings
DeclaredKeys == {"useWebSearch", "theme"}

DeclaredDefaults == [useWebSearch |-> FALSE, theme |-> THEMES.AUTO]

DeclaredThemes == {THEMES.AUTO, THEMES.LIGHT, THEMES.DARK}

\* C11: for every recognized key k and value v, updateSetting(k, v) followed
\* by getSetting(k) returns v.
C11_SetGetRoundTrip ==
    [][(/\ lastCall.op = "updateSetting"
        /\ ~lastCall.threw
        /\ lastCall'.op = "getSetting"
        /\ lastCall'.key = lastCall.key)
       => (~lastCall'.threw /\ lastCall'.returned = lastCall.arg)]_vars

C11_Witness ==
    /\ lastCall.op = "getSetting"
    /\ lastCall.key = "theme"
    /\ lastCall.returned = <<THEMES.LIGHT>>
    /\ settings.useWebSearch = TRUE

\* C12: after updateSetting(k, v) and a restart that re-creates the store
\* from storage, k has the value v and every key has the value it had
\* before the restart.
C12_PersistenceRoundTrip ==
    [][lastCall'.op = "create"
       => /\ settings' = settings
          /\ (lastCall.op = "updateSetting" /\ ~lastCall.threw)
             => settings'[lastCall.key] = lastCall.arg[1]]_vars

C12_Witness ==
    /\ lastCall.op = "create"
    /\ settings = [useWebSearch |-> TRUE, theme |-> THEMES.LIGHT]
    /\ storage # <<>>
    /\ storage[1].state = settings

\* C13: updateSetting(k, v) with v equal to the current value of k changes
\* no setting, notifies no subscriber and writes nothing to storage.
C13_NoOpSuppression ==
    [][(/\ lastCall'.op = "updateSetting"
        /\ ~lastCall'.threw
        /\ lastCall'.arg[1] = settings[lastCall'.key])
       => /\ settings' = settings
          /\ storage' = storage
          /\ lastCall'.notified = {}
          /\ ~lastCall'.published
          /\ ~lastCall'.wrote]_vars

C13_Witness ==
    /\ lastCall.op = "updateSetting"
    /\ lastCall.key = "theme"
    /\ lastCall.arg = <<THEMES.DARK>>
    /\ settings.theme = THEMES.DARK
    /\ subscribers = {"theme"}
    /\ lastCall.changed = {}
    /\ ~lastCall.wrote

\* C14: after resetSettings() every recognized key has its declared default
\* (useWebSearch false, theme auto), and getSetting returns it.
C14_ResetRestoresDefaults ==
    /\ [](lastCall.op = "resetSettings" => settings = DeclaredDefaults)
    /\ [][(/\ lastCall.op = "resetSettings"
           /\ lastCall'.op = "getSetting"
           /\ lastCall'.key \in DeclaredKeys)
          => lastCall'.returned = <<DeclaredDefaults[lastCall'.key]>>]_vars

C14_Witness ==
    /\ lastCall.op = "resetSettings"
    /\ lastCall.changed = {"useWebSearch", "theme"}
    /\ settings = DeclaredDefaults

\* C15: resetSettings() after resetSettings() leaves the settings and the
\* storage as the first one left them.
C15_ResetIdempotent ==
    [][(lastCall.op = "resetSettings" /\ lastCall'.op = "resetSettings")
       => (settings' = settings /\ storage' = storage)]_vars

C15_Witness ==
    /\ lastCall.op = "resetSettings"
    /\ lastCall.changed = {}
    /\ lastCall.published
    /\ settings = DeclaredDefaults

\* C16: right after resetSettings() storage holds no snapshot under the
\* settings namespace, so a restart takes every key from the defaults.
C16_ResetClearsStorage ==
    lastCall.op = "resetSettings"
    => /\ storage = <<>>
       /\ Hydrate(DeclaredDefaults, storage) = DeclaredDefaults

\* C17: setting the theme to a value outside {auto, light, dark} raises no
\* error and stores the default theme, at every entry point: updateSetting,
\* the useTheme setter and the settings dialog's handler.
C17_ThemeCoercion ==
    (/\ lastCall.op \in {"updateSetting", "setTheme", "handleThemeChange"}
     /\ lastCall.key = "theme"
     /\ lastCall.arg[1] \notin DeclaredThemes)
    => (~lastCall.threw /\ settings.theme = THEMES.AUTO)

\* C18: a listener subscribed to key k is invoked by an operation if and
\* only if the operation changed the value of k; one that is not (or no
\* longer) subscribed is never invoked.
C18_SelectiveSubscription ==
    [][lastCall'.notified = {k \in subscribers : settings'[k] # settings[k]}]_vars

C18_Witness ==
    /\ subscribers = {"useWebSearch", "theme"}
    /\ lastCall.op = "updateSetting"
    /\ lastCall.changed = {"theme"}
    /\ lastCall.notified = {"theme"}

\* C19: after every updateSetting that changed a value, storage holds under
\* "chatbot-settings" a snapshot with every recognized key at its current
\* value.
C19_PersistOnChange ==
    (lastCall.op = "updateSetting" /\ lastCall.changed # {})
    => /\ storage # <<>>
       /\ storage[1].name = "chatbot-settings"
       /\ DOMAIN storage[1].state = DeclaredKeys
       /\ \A k \in DeclaredKeys : storage[1].state[k] = settings[k]

C19_Witness ==
    /\ lastCall.op = "updateSetting"
    /\ lastCall.changed = {"useWebSearch"}
    /\ storage # <<>>
    /\ storage[1].state = [useWebSearch |-> TRUE, theme |-> THEMES.DARK]

\* C20: when the store is created over a stored snapshot, every key of the
\* snapshot has the snapshot's value and the others their default; when
\* there is no snapshot, every key has its default.
C20_Initialization ==
    /\ [](lastCall.op = "create"
          => IF storage = <<>>
             THEN settings = DeclaredDefaults
             ELSE /\ DOMAIN settings = DeclaredKeys
                  /\ \A k \in DeclaredKeys :
                        settings[k] = IF k \in DOMAIN storage[1].state
                                      THEN storage[1].state[k]
                                      ELSE DeclaredDefaults[k])
    /\ [][lastCall'.op = "create"
          => IF storage = <<>>
             THEN settings' = DeclaredDefaults
             ELSE /\ DOMAIN settings' = DeclaredKeys
                  /\ \A k \in DeclaredKeys :
                        settings'[k] = IF k \in DOMAIN storage[1].state
                                       THEN storage[1].state[k]
                                       ELSE DeclaredDefaults[k]]_vars

C20_Witness ==
    /\ lastCall.op = "create"
    /\ storage # <<>>
    /\ DOMAIN storage[1].state = {"useWebSearch"}
    /\ settings = [useWebSearch |-> TRUE, theme |-> THEMES.AUTO]

----------------------------------------------------------------------------
(* Properties of the store over a failing storage, of the provider and of  *)
(* the message list                                                        *)

\* C21: when the storage backend is unavailable or a write or clear fails,
\* updateSetting and resetSettings do not throw and the in-memory settings
\* are updated all the same.
C21_StorageFailureAbsorbed ==
    /\ (lastCall.op = "updateSetting" /\ lastCall.key \in DeclaredKeys)
       => (~lastCall.threw /\ settings[lastCall.key] = lastCall.arg[1])
    /\ lastCall.op = "resetSettings"
       => (~lastCall.threw /\ settings = DeclaredDefaults)

\* C22: the request of every send carries the web-search tool if and only
\* if the useWebSearch value the controller passed with it is true (stated
\* for runs of non-blank submissions).
C22_WebSearchFollowsSetting ==
    NonBlankSends =>
    \A k \in DOMAIN requests :
        ("tools" \in DOMAIN requests[k].body) <=> sends[requests[k].send].flag

\* C23: every accepted send causes exactly one provider request, whether
\* the request succeeds or fails, and a vendor failure reaches the
\* controller as an error: its catch arm runs and logs it.
C23_NoRetry ==
    /\ Len(requests) = Len(sends)
    /\ \A i \in DOMAIN sends :
          Cardinality({k \in DOMAIN requests : requests[k].send = i}) = 1
    /\ \A i \in DOMAIN sends :
          sends[i].vendor = "rejected" => sends[i].outcome = "rejected"
    /\ Len(errorLog) = Cardinality({i \in DOMAIN sends : sends[i].vendor = "rejected"})
    /\ \A k \in DOMAIN errorLog : errorLog[k] \in ProviderErrors

C23_Witness ==
    /\ Len(sends) = 2
    /\ sends[1].vendor = "rejected"
    /\ sends[2].vendor = "resolved"
    /\ Len(requests) = 2
    /\ errorLog = <<NetworkError>>

\* C24: the request of every send holds exactly one input entry, with the
\* role and the content of the message just submitted, however many
\* messages the history held when it was sent.
C24_StatelessRequests ==
    \A k \in DOMAIN requests :
        /\ requests[k].send \in DOMAIN sends
        /\ Len(requests[k].body.input) = 1
        /\ requests[k].body.input[1] =
              [role |-> "user", content |-> sends[requests[k].send].content]

C24_Witness ==
    /\ Len(requests) = 2
    /\ Len(messages) = 4
    /\ messages[2].role = "assistant"
    /\ messages[3] = [content |-> Question, role |-> "user"]
    /\ requests[2].body.input = <<[role |-> "user", content |-> Question]>>

\* C25: in every reachable state of the store the stored theme is one of
\* the three declared theme values.
C25_ThemeDomain == settings.theme \in DeclaredThemes

\* C26: updateSetting or getSetting called with an unrecognized key raises
\* its error before any change: the settings, their keys, the stored
\* snapshot and the subscribers are as before and no subscriber is notified.
C26_RejectedKeyFrame ==
    [][(/\ lastCall'.op \in {"updateSetting", "getSetting"}
        /\ lastCall'.key \notin DeclaredKeys)
       => /\ lastCall'.threw
          /\ settings' = settings
          /\ DOMAIN settings' = DeclaredKeys
          /\ storage' = storage
          /\ subscribers' = subscribers
          /\ lastCall'.notified = {}
          /\ ~lastCall'.published
          /\ ~lastCall'.wrote]_vars

C26_Witness ==
    /\ lastCall.op = "updateSetting"
    /\ lastCall.key = "language"
    /\ lastCall.threw
    /\ settings = [useWebSearch |-> TRUE, theme |-> THEMES.LIGHT]
    /\ storage # <<>>
    /\ storage[1].state = settings
    /\ subscribers = {"theme"}

\* the groups of a list of groups, concatenated in order
RECURSIVE ConcatFirst(_, _)
ConcatFirst(groups, n) ==
    IF n = 0
    THEN <<>>
    ELSE ConcatFirst(groups, n - 1) \o groups[n]

\* C27: the groups Chat renders after the fixed welcome group, concatenated
\* in order, are the message list; no group is empty; a user message is
\* always the first of its group; and every group but the first starts
\* with a user message.
C27_ChatGrouping ==
    LET groups == Tail(rendered)
        users == {k \in DOMAIN messages : messages[k].role = "user"}
    IN /\ rendered[1] = <<[role |-> "assistant", content |-> WelcomeText]>>
       /\ ConcatFirst(groups, Len(groups)) = messages
       /\ \A g \in DOMAIN groups :
             /\ Len(groups[g]) >= 1
             /\ g > 1 => groups[g][1].role = "user"
             /\ \A j \in 2..Len(groups[g]) : groups[g][j].role # "user"
       /\ Len(groups) = Cardinality(users)
                         + (IF messages # <<>> /\ messages[1].role # "user"
                            THEN 1 ELSE 0)

C27_Witness ==
    /\ messages = <<[content |-> Four, role |-> "assistant"],
                    [content |-> Ping, role |-> "user"],
                    [content |-> Ping, role |-> "system"]>>
    /\ Len(rendered) = 3
    /\ rendered[2] = <<[content |-> Four, role |-> "assistant"]>>

\* C28: the reply of a send is displayed in the group of that send's user
\* message: the group of each send holds its user message and, once its
\* call has completed, its reply, and nothing else (stated for runs of
\* non-blank submissions).
C28_ReplyWithQuestion ==
    NonBlankSends =>
    /\ Len(rendered) = Len(sends) + 1
    /\ \A i \in DOMAIN sends :
          rendered[i + 1] =
              <<[content |-> sends[i].content, role |-> "user"]>>
              \o (IF Settled(i) THEN <<ExpectedReply(sends[i])>> ELSE <<>>)

\* C29: when the content ends, in any case, with "[use-tool-web-search]"
\* the request of the OpenAI provider carries the web_search tool and the
\* content it sends no longer contains the directive; otherwise the
\* request carries no tool and the content is sent unchanged.
C29_DirectiveHandling ==
    providerModule = "openAI.js" =>
    \A c \in DOMAIN providerCalls :
        LET text == providerCalls[c].message.content
            body == providerCalls[c].body
            sent == body.input[1].content
        IN IF endsWith(toLowerCase(text), USE_WEB_SEARCH_TOOL_DIRECTIVE)
           THEN /\ "tools" \in DOMAIN body
                /\ body.tools = <<[type |-> "web_search"]>>
                /\ ~includes(toLowerCase(sent), USE_WEB_SEARCH_TOOL_DIRECTIVE)
           ELSE /\ "tools" \notin DOMAIN body
                /\ sent = text

\* C30: for a message whose content does not end with the directive, the
\* directive-aware and the plain sendMessage build the same request (the
\* model, one input entry with the role and the content, no tools) and
\* return the same reply text for the same vendor response.
C30_VariantsAgree ==
    \A c \in DOMAIN providerCalls :
        LET call == providerCalls[c]
            m == call.message
        IN ~endsWith(toLowerCase(m.content), USE_WEB_SEARCH_TOOL_DIRECTIVE)
           => /\ call.body =
                    [model |-> "gpt-4o-mini",
                     input |-> <<[role |-> m.role, content |-> m.content]>>]
              /\ sendMessageBody(m) = sendMessageBodyPlain(m)
              /\ call.pc # "await"
                    => /\ sendMessageResult(call.vendor[1])
                             = sendMessageResultPlain(call.vendor[1])
                       /\ call.pc = "returned" <=> call.vendor[1].ok
                       /\ call.vendor[1].ok
                             => call.result[1].value = call.vendor[1].output_text

C30_Witness ==
    /\ providerModule = "openAI.js"
    /\ Len(providerCalls) = 2
    /\ providerCalls[1].message = [content |-> Ping, role |-> "user"]
    /\ providerCalls[1].pc = "await"
    /\ providerCalls[2].message =
          [content |-> USE_WEB_SEARCH_TOOL_DIRECTIVE \o Ping, role |-> "assistant"]
    /\ providerCalls[2].pc = "returned"
    /\ providerCalls[2].result[1].value = Four

====
